---- MODULE Spec2Model ----
(***************************************************************************)
(* A model of limited-promise: LimitedPromise (src/src/index.ts), a lazy   *)
(* token bucket with credit whose deferred grants are setTimeout timers    *)
(* kept in a registry that cancel() empties.                               *)
(*                                                                         *)
(* Numbers.  The code computes with JavaScript doubles; the model computes *)
(* exactly, in fixed point.  Time is in milliseconds.  A balance is held   *)
(* in units of 1/Unit token and a rate in tokens per RateDen seconds, so   *)
(* that  addedTokens = dt / 1000.0 * rate  is the integer  dt * rate  and  *)
(* the default rate 1/60 is the integer 1.  Floating-point rounding is not *)
(* modelled.                                                               *)
(***************************************************************************)
EXTENDS Integers, Sequences, FiniteSets, TLC

\* ---------------------------------------------------------------- bounds
\* How many next() calls one behaviour makes.
MaxRequests == 5
\* How many next() calls one behaviour makes when the callers pass handles.
MaxHandleRequests == 3
MaxFewRequests == 3
\* How many clock steps one behaviour takes.
MaxTicks == 3
\* The length of one clock step, in milliseconds.
TickMs == 500

\* ------------------------------------------------------------- constants
\* "dt / 1000.0 * rate", "1000.0 * delayInTokens / rate": ms per second.
MsPerSecond == 1000
\* "rate: 1 / 60": a rate is held as tokens per RateDen seconds.
RateDen == 60
\* Balance units per token.
Unit == MsPerSecond * RateDen

Min(a, b) == IF a < b THEN a ELSE b
Max(a, b) == IF a > b THEN a ELSE b

\* An optional JavaScript value: None is undefined, Some(v) is v.
None == <<>>
Some(v) == <<v>>

\* ------------------------------------------------------------- the inputs
\* The default configuration if nothing is passed (rate 1/60 token/s).
DefaultConfig == [tokens |-> 10, tokenCredit |-> 10, rate |-> 1]

\* The config objects the behaviours are built with; a field that is None
\* is absent from the object.  Rates: 60 is 1 token/s, 120 is 2 tokens/s,
\* 600 is 10 tokens/s.
Configs ==
  { [tokens |-> None,    tokenCredit |-> None,    rate |-> None],
    [tokens |-> Some(2), tokenCredit |-> Some(2), rate |-> Some(60)],
    [tokens |-> Some(1), tokenCredit |-> Some(1), rate |-> Some(120)],
    [tokens |-> Some(2), tokenCredit |-> Some(0), rate |-> Some(60)],
    [tokens |-> Some(0), tokenCredit |-> Some(2), rate |-> Some(60)],
    [tokens |-> Some(10), tokenCredit |-> None,   rate |-> Some(600)] }

\* The initialBalance arguments, in balance units: absent, 0, -1, 3, -3
\* tokens and half a token.
InitialBalances ==
  { None, Some(0), Some(-Unit), Some(3 * Unit), Some(-3 * Unit), Some(Unit \div 2) }

\* The cancellation handles the callers pass to next() and cancel(); None
\* is a call without a handle.
Handles == { None, Some("a"), Some("b") }

\* --------------------------------------------------------------- the state
VARIABLES
  config,      \* this.config: [tokens, tokenCredit, rate]
  _balance,    \* this._balance, in balance units
  lastTime,    \* this.lastTime, ms
  pending,     \* this.pending: id -> [reject, timeout]
  nextId,      \* this.nextId
  now,         \* new Date().getTime(), ms since construction
  timers,      \* the live setTimeout timers: a set of [id, due]
  settled,     \* per request, the resolve/reject calls made on its promise, in order
  calls,       \* per request, what next() computed for it (history)
  resolvedAt,  \* per request resolved so far, the time of its resolve call (history)
  args         \* the constructor's arguments (history)

vars == << config, _balance, lastTime, pending, nextId, now, timers,
           settled, calls, resolvedAt, args >>

\* The outcomes a promise is given.
Resolved == "resolved"
CreditExceeded == "Exceeded token credit allowance"
Cancelled == "Bucket Cancelled"

\* ---------------------------------------------------------- construction
\* Object.assign(Object.assign({}, DefaultConfig), config)
Field(opt, dflt) == IF opt = None THEN dflt ELSE opt[1]
MergeConfig(c) ==
  [tokens      |-> Field(c.tokens, DefaultConfig.tokens),
   tokenCredit |-> Field(c.tokenCredit, DefaultConfig.tokenCredit),
   rate        |-> Field(c.rate, DefaultConfig.rate)]

\* this._balance = initialBalance || this.config.tokens
\* (undefined and 0 are falsy).
StartBalance(initialBalance, tokens) ==
  IF initialBalance = None \/ initialBalance[1] = 0
    THEN tokens * Unit
    ELSE initialBalance[1]

\* new LimitedPromise(c, ib)
Construct(c, ib) ==
  /\ config = MergeConfig(c)
  /\ _balance = StartBalance(ib, MergeConfig(c).tokens)
  /\ lastTime = 0
  /\ pending = << >>
  /\ nextId = 0
  /\ now = 0
  /\ timers = {}
  /\ settled = << >>
  /\ calls = << >>
  /\ resolvedAt = << >>
  /\ args = [config |-> c, initialBalance |-> ib]

Init == \E c \in Configs, ib \in InitialBalances : Construct(c, ib)

\* ------------------------------------------------------------- nextDelay
\* A bucket that never replenishes.
RefillNever(b, dt, cfg) == b

\* A refill without the floor at the credit.
RefillNoFloor(b, dt, cfg) ==
  IF b < cfg.tokens * Unit
    THEN Min(b + dt * cfg.rate, cfg.tokens * Unit)
    ELSE b

\* A refill without the capacity test: it runs at every request.
RefillAlways(b, dt, cfg) ==
  Max(Min(b + dt * cfg.rate, cfg.tokens * Unit), -cfg.tokenCredit * Unit)

\* "Calculate the new balance only if below the threshold"
Refill(b, dt, cfg) ==
  IF b < cfg.tokens * Unit
    THEN Max(Min(b + dt * cfg.rate, cfg.tokens * Unit), -cfg.tokenCredit * Unit)
    ELSE b

\* The rejection test of the first LazyBucket: one token later.
OverCreditLate(b, cfg) == b < -cfg.tokenCredit * Unit

\* this._balance < -this.config.tokenCredit + 1
OverCredit(b, cfg) == b < (1 - cfg.tokenCredit) * Unit

\* A delay computed from the balance after the decrement.
DelayOfAfter(b, cfg) == (Unit - (b - Unit)) \div cfg.rate

\* The double Infinity: what 1000.0 * delayInTokens / 0 evaluates to (the
\* branch is taken with delayInTokens > 0).  It stands above every time
\* of the model.
Infinity == 2000000000

\* 1000.0 * delayInTokens / rate, with delayInTokens = 1 - balance:
\* 1000 * ((Unit - b) / Unit) / (rate / RateDen) = (Unit - b) / rate.
DelayOf(b, cfg) == IF cfg.rate = 0 THEN Infinity ELSE (Unit - b) \div cfg.rate

\* A deferral that does not reserve its token.
AfterDeferNoReserve(b) == b

\* this._balance-- in the deferring branch.
AfterDefer(b) == b - Unit

\* A rejection that takes a token all the same.
AfterRejectDecrement(b) == b - Unit

\* the throwing branch leaves this._balance alone.
AfterReject(b) == b

\* this._balance >= 1
HasToken(b) == b >= Unit

\* nextDelay(): the refilled balance, whether it threw, the delay it
\* returned and the balance it left.
nextDelay(b, last, t, cfg) ==
  LET refilled == Refill(b, t - last, cfg) IN
    IF HasToken(refilled)
      THEN [refilled |-> refilled, threw |-> FALSE, delay |-> 0,
            balance |-> refilled - Unit]
    ELSE IF OverCredit(refilled, cfg)
      THEN [refilled |-> refilled, threw |-> TRUE, delay |-> 0,
            balance |-> AfterReject(refilled)]
      ELSE [refilled |-> refilled, threw |-> FALSE,
            delay |-> DelayOf(refilled, cfg),
            balance |-> AfterDefer(refilled)]

\* ------------------------------------------------------------------ next
\* A registry that records every request that did not resolve at once.
RegisterAlways(r) == TRUE

\* next() goes to setTimeout and this.pending only with a delay > 0 and
\* no exception.
Registers(r) == ~r.threw /\ r.delay > 0

\* What the promise executor of next() does to the promise of request id.
FirstSettle(r) ==
  IF r.threw THEN << CreditExceeded >>
  ELSE IF r.delay <= 0 THEN << Resolved >>
  ELSE << >>

Kind(r) ==
  IF r.threw THEN "rejected" ELSE IF r.delay <= 0 THEN "immediate" ELSE "deferred"

\* setTimeout(callback, delay): the delay the timer runs with.  Node sets
\* a delay above 2^31 - 1, Infinity included, to 1 ms; next() passes no
\* delay below or at 0.
TimerDelay(delay) == IF delay = Infinity THEN 1 ELSE delay

\* next(handle): the declared method takes no parameter, so a handle the
\* caller passes is dropped.
Next_(h) ==
  LET id == nextId
      r  == nextDelay(_balance, lastTime, now, config) IN
    /\ nextId < MaxRequests
    /\ nextId' = id + 1
    /\ lastTime' = now
    /\ _balance' = r.balance
    /\ settled' = settled @@ (id :> FirstSettle(r))
    /\ IF Registers(r)
         THEN /\ timers' = timers \cup { [id |-> id, due |-> now + TimerDelay(r.delay)] }
              /\ pending' = pending @@ (id :> [reject |-> id, timeout |-> id])
         ELSE UNCHANGED << timers, pending >>
    /\ calls' = calls @@ (id :> [time |-> now, handle |-> h, kind |-> Kind(r),
                                 refilled |-> r.refilled, delay |-> r.delay,
                                 balance |-> r.balance])
    /\ resolvedAt' = IF FirstSettle(r) = << Resolved >>
                       THEN resolvedAt @@ (id :> now)
                       ELSE resolvedAt
    /\ UNCHANGED << config, now, args >>

\* ------------------------------------------------------- the timer fires
\* A callback that leaves its record in the registry.
ForgetNothing(reg, id) == reg

\* delete(this.pending[id])
Forget(reg, id) == [i \in DOMAIN reg \ { id } |-> reg[i]]

\* setTimeout(() => { resolve(); delete(this.pending[id]) }, delay): the
\* callback runs once, at some time not before its delay has passed.
Fire(tm) ==
  /\ tm \in timers
  /\ now >= tm.due
  /\ timers' = timers \ { tm }
  /\ settled' = [settled EXCEPT ![tm.id] = Append(@, Resolved)]
  /\ pending' = Forget(pending, tm.id)
  /\ resolvedAt' = IF settled[tm.id] = << >>
                     THEN resolvedAt @@ (tm.id :> now)
                     ELSE resolvedAt
  /\ UNCHANGED << config, _balance, lastTime, nextId, now, calls, args >>

\* ---------------------------------------------------------------- cancel
\* A cancel that forgets clearTimeout.
KeepTimeouts(ts, reg) == ts

\* clearTimeout(task.timeout) for every task of the registry.
ClearTimeouts(ts, reg) ==
  { tm \in ts : \A i \in DOMAIN reg : reg[i].timeout # tm.id }

\* A cancel that rejects every promise the bucket ever made.
RejectsAll(reg, i) == TRUE

\* Object.values(this.pending).forEach(task => task.reject(...)): the
\* promises rejected are those with a record in the registry.
RejectedBy(reg, i) == \E j \in DOMAIN reg : reg[j].reject = i

\* A cancel that gives the reserved tokens back.
RefundCancelled(b, reg) == b + Cardinality(DOMAIN reg) * Unit

\* cancel() does not write this._balance.
AfterCancel(b, reg) == b

\* cancel(handle): the declared method takes no parameter, so a handle
\* the caller passes is dropped.
Cancel(h) ==
  /\ settled' = [i \in DOMAIN settled |->
                   IF RejectedBy(pending, i)
                     THEN Append(settled[i], Cancelled)
                     ELSE settled[i]]
  /\ timers' = ClearTimeouts(timers, pending)
  /\ pending' = << >>
  /\ _balance' = AfterCancel(_balance, pending)
  /\ UNCHANGED << config, lastTime, nextId, now, calls, resolvedAt, args >>

\* ------------------------------------------------------------- the clock
\* Time passes between two steps of the program.
Tick ==
  /\ now + TickMs <= MaxTicks * TickMs
  /\ now' = now + TickMs
  /\ UNCHANGED << config, _balance, lastTime, pending, nextId, timers,
                  settled, calls, resolvedAt, args >>

\* The callers use the methods as index.ts declares them: without a handle.
Next ==
  \/ Next_(None)
  \/ \E tm \in timers : Fire(tm)
  \/ Cancel(None)
  \/ Tick

Spec == Init /\ [][Next]_vars

\* The callers pass cancellation handles, as the tests of index.ts do
\* ("next(handle)", "bucket.cancel('noop')").
HandleConstructions ==
  { [config |-> [tokens |-> Some(2), tokenCredit |-> Some(2), rate |-> Some(60)],
     initialBalance |-> None],
    [config |-> [tokens |-> Some(0), tokenCredit |-> Some(2), rate |-> Some(60)],
     initialBalance |-> None],
    [config |-> [tokens |-> Some(10), tokenCredit |-> None, rate |-> Some(600)],
     initialBalance |-> Some(-Unit)] }

InitHandles ==
  \E a \in HandleConstructions : Construct(a.config, a.initialBalance)

NextHandles ==
  \/ \E h \in Handles : nextId < MaxHandleRequests /\ Next_(h)
  \/ \E tm \in timers : Fire(tm)
  \/ \E h \in Handles : Cancel(h)
  \/ Tick

SpecHandles == InitHandles /\ [][NextHandles]_vars

\* The device time is set back by one clock step ("if your device time
\* changes").  The code reads the clock only to take differences with
\* lastTime, and timers do not follow the device time, so the time stamps
\* the bucket holds are kept relative to the clock as it now reads: each
\* becomes one step later, and the timers stay as they are.  The clock is
\* not set back again while it reads earlier than lastTime.
ClockBack ==
  /\ lastTime <= now
  /\ lastTime' = lastTime + TickMs
  /\ calls' = [i \in DOMAIN calls |-> [calls[i] EXCEPT !.time = @ + TickMs]]
  /\ resolvedAt' = [i \in DOMAIN resolvedAt |-> resolvedAt[i] + TickMs]
  /\ UNCHANGED << config, _balance, pending, nextId, now, timers, settled, args >>

\* A few constructions, for the specifications with more steps.
FewConfigs ==
  { [tokens |-> Some(2), tokenCredit |-> Some(2), rate |-> Some(60)],
    [tokens |-> Some(1), tokenCredit |-> Some(1), rate |-> Some(120)],
    [tokens |-> Some(2), tokenCredit |-> Some(0), rate |-> Some(60)] }

FewBalances == { None, Some(-3 * Unit), Some(3 * Unit) }

InitFew == \E c \in FewConfigs, ib \in FewBalances : Construct(c, ib)

NextFew ==
  \/ nextId < MaxFewRequests /\ Next_(None)
  \/ \E tm \in timers : Fire(tm)
  \/ Cancel(None)
  \/ Tick

NextClock == NextFew \/ ClockBack

SpecClock == InitFew /\ [][NextClock]_vars

\* The event loop runs every timer callback that is due, and time passes.
TimersFire ==
  /\ WF_vars(Tick)
  /\ \A id \in 0..(MaxFewRequests - 1) :
       WF_vars(\E tm \in timers : tm.id = id /\ Fire(tm))

SpecFair == InitFew /\ [][NextFew]_vars /\ TimersFire

\* The constructor is given a configuration that makes no sense: a rate of
\* 0 or below, a negative credit, a negative capacity.
InvalidConfigs ==
  { [tokens |-> Some(2),  tokenCredit |-> Some(2),  rate |-> Some(0)],
    [tokens |-> Some(2),  tokenCredit |-> Some(2),  rate |-> Some(-60)],
    [tokens |-> Some(2),  tokenCredit |-> Some(-1), rate |-> Some(60)],
    [tokens |-> Some(-1), tokenCredit |-> Some(2),  rate |-> Some(60)] }

InitInvalid ==
  \E c \in InvalidConfigs, ib \in { None, Some(-Unit) } : Construct(c, ib)

SpecInvalid == InitInvalid /\ [][Next]_vars

\* ------------------------------------------------------------ LazyBucket
\* The LazyBucket of lazy-bucket.ts, built with the same arguments and given
\* the same requests at the same times as the LimitedPromise.
\* Object.assign(Object.assign({}, DefaultConfig), config)
LazyConfig == MergeConfig(args.config)

\* this._balance = initialBalance || this.config.tokens
LazyStartBalance ==
  IF args.initialBalance = None \/ args.initialBalance[1] = 0
    THEN LazyConfig.tokens * Unit
    ELSE args.initialBalance[1]

\* LazyBucket.nextDelay(): the refill has a ceiling and no floor.
LazyNextDelay(b, last, t, cfg) ==
  LET refilled == IF b < cfg.tokens * Unit
                    THEN Min(b + (t - last) * cfg.rate, cfg.tokens * Unit)
                    ELSE b IN
    IF refilled >= Unit
      THEN [threw |-> FALSE, delay |-> 0, balance |-> refilled - Unit]
    ELSE IF refilled < (1 - cfg.tokenCredit) * Unit
      THEN [threw |-> TRUE, delay |-> 0, balance |-> refilled]
      ELSE [threw |-> FALSE, delay |-> (Unit - refilled) \div cfg.rate,
            balance |-> refilled - Unit]

\* The i-th call of LazyBucket.next(), made at the time of request i.
RECURSIVE LazyCall(_)
LazyCall(i) ==
  IF i = 0
    THEN LazyNextDelay(LazyStartBalance, 0, calls[0].time, LazyConfig)
    ELSE LazyNextDelay(LazyCall(i - 1).balance, calls[i - 1].time,
                       calls[i].time, LazyConfig)

\* LazyBucket.next(): reject(e), resolve() at once, or setTimeout.
LazyKind(r) ==
  IF r.threw THEN "rejected" ELSE IF r.delay <= 0 THEN "immediate" ELSE "deferred"

\* ------------------------------------------------------------ the claims
\* The requests made so far, and some words about them.
Ids == DOMAIN calls
Immediate(i) == calls[i].kind = "immediate"
Deferred(i) == calls[i].kind = "deferred"
Rejected(i) == calls[i].kind = "rejected"
\* The time a request is granted at: now for an immediate grant, now + delay
\* for a deferred one.
GrantTime(i) == calls[i].time + calls[i].delay
\* The balance the bucket was constructed with.
ConstructedBalance == StartBalance(args.initialBalance, config.tokens)
\* The bucket was constructed full.
FullStart == ConstructedBalance = config.tokens * Unit
\* No time elapsed between the requests made so far.
Burst == \A i \in Ids : calls[i].time = calls[0].time
\* No request made so far was cancelled.
NoCancel == \A i \in Ids : settled[i] # << Cancelled >>

\* C1: in a burst on a bucket constructed full, with capacity C and credit
\* K, the first C requests are granted at once, the next K are deferred and
\* every further one is rejected with the credit error.
C1_BurstAdmission ==
  (FullStart /\ Burst) =>
    \A i \in Ids :
      /\ i < config.tokens => Immediate(i) /\ settled[i] = << Resolved >>
      /\ (config.tokens <= i /\ i < config.tokens + config.tokenCredit)
           => Deferred(i)
      /\ i >= config.tokens + config.tokenCredit
           => Rejected(i) /\ settled[i] = << CreditExceeded >>

\* C1 witness: tokens = 2, tokenCredit = 2, five requests in a burst, the
\* fifth rejected.
C1_Witness ==
  /\ FullStart /\ Burst
  /\ config.tokens = 2 /\ config.tokenCredit = 2
  /\ nextId = 5
  /\ Immediate(1) /\ Deferred(2) /\ Deferred(3) /\ Rejected(4)

\* C2: a request whose refilled balance b has -tokenCredit + 1 <= b < 1 is
\* deferred by exactly 1000 * (1 - b) / rate ms (delay * rate = Unit - b in
\* the model's units) and leaves the balance b - 1; so the k-th deferral of
\* a burst from balance 0 is k * 1000 / rate ms out, and from balance -1 at
\* 10 tokens/s the request is 200 ms out and leaves -2.
C2_DeferralDelay ==
  /\ \A i \in Ids :
       ((1 - config.tokenCredit) * Unit <= calls[i].refilled
          /\ calls[i].refilled < Unit)
       => /\ Deferred(i)
          /\ calls[i].delay * config.rate = Unit - calls[i].refilled
          /\ calls[i].balance = calls[i].refilled - Unit
  /\ \A tm \in timers : tm.due = GrantTime(tm.id)
  /\ \A i \in Ids, k \in 1..MaxRequests :
       ( /\ i + k - 1 \in Ids
         /\ calls[i].refilled = 0
         /\ \A j \in i..(i + k - 1) : Deferred(j) /\ calls[j].time = calls[i].time )
       => calls[i + k - 1].delay * config.rate = k * Unit
  /\ \A i \in Ids :
       (config.rate = 10 * RateDen /\ Deferred(i) /\ calls[i].refilled = -Unit)
       => calls[i].delay = 200 /\ calls[i].balance = -2 * Unit

\* C2 witness: the bucket built with balance -1 at 10 tokens/s has deferred
\* its first request by 200 ms and the next one of the burst by 300 ms.
C2_Witness ==
  /\ config.rate = 10 * RateDen
  /\ nextId >= 2
  /\ calls[0].refilled = -Unit /\ calls[0].delay = 200
  /\ calls[1].time = calls[0].time /\ calls[1].delay = 300
  /\ _balance = -3 * Unit

\* C3: a request is rejected with the credit error exactly when its
\* refilled balance is below 1 and below -tokenCredit + 1, and the
\* rejected call leaves the balance at that refilled value.
C3_CreditRejection ==
  \A i \in Ids :
    /\ Rejected(i) <=>
         ( calls[i].refilled < Unit
           /\ calls[i].refilled < (1 - config.tokenCredit) * Unit )
    /\ Rejected(i) =>
         /\ calls[i].balance = calls[i].refilled
         /\ Head(settled[i]) = CreditExceeded

\* C3 witness: a request was rejected after time had passed and the balance
\* stayed at the refilled value, above the balance the call found.
C3_Witness ==
  \E i \in Ids :
    /\ i > 0 /\ i = nextId - 1
    /\ Rejected(i)
    /\ calls[i].refilled > calls[i - 1].balance
    /\ _balance = calls[i].refilled

\* C4: a bucket constructed with an explicit initialBalance b reads b back
\* before any request, for every b, b = 0 included.
C4_InitialBalanceReadBack ==
  (nextId = 0 /\ args.initialBalance # None)
    => _balance = args.initialBalance[1]

\* C5: cancel() without a handle rejects every request pending at that
\* moment with 'Bucket Cancelled' within the call, clears its timer and
\* leaves the registry empty; none of them is resolved later.
C5_BulkCancel ==
  /\ [][ Cancel(None) =>
           /\ \A i \in DOMAIN pending :
                /\ settled'[i] = << Cancelled >>
                /\ \A tm \in timers' : tm.id # i
           /\ pending' = << >> ]_vars
  /\ [](\A i \in Ids :
          (\E n \in DOMAIN settled[i] : settled[i][n] = Cancelled)
            => /\ settled[i] = << Cancelled >>
               /\ \A tm \in timers : tm.id # i)

\* C5 witness: two requests pending together were cancelled and time has
\* passed beyond the time either was scheduled for.
C5_Witness ==
  \E i, j \in Ids :
    /\ i < j
    /\ settled[i] = << Cancelled >> /\ settled[j] = << Cancelled >>
    /\ pending = << >>
    /\ now > GrantTime(j)

\* C6: under every interleaving each request is given at most one outcome:
\* at most one resolve or reject call is ever made on its promise.
C6_SingleOutcome ==
  \A i \in DOMAIN settled : Len(settled[i]) <= 1

\* C6 witness: one request was cancelled, one resolved by its timer and one
\* rejected for credit.
C6_Witness ==
  \E i, j, k \in Ids :
    /\ settled[i] = << Cancelled >>
    /\ Deferred(j) /\ settled[j] = << Resolved >>
    /\ settled[k] = << CreditExceeded >>

\* C7: cancel(A) rejects exactly the pending requests made with next(A);
\* those made under another handle or under none stay pending with their
\* timers.
C7_HandleIsolation ==
  [][ \A h \in Handles \ { None } :
        Cancel(h) =>
          \A i \in DOMAIN pending :
            IF calls[i].handle = h
              THEN settled'[i] = << Cancelled >>
              ELSE /\ i \in DOMAIN pending'
                   /\ settled'[i] = << >>
                   /\ \E tm \in timers' : tm.id = i ]_vars

\* C8, as claimed: without cancellation the grant times are non-decreasing
\* in arrival order, no later request is resolved while an earlier one
\* still waits, and no two deferred requests share a scheduled time.
C8_ResolvedInArrivalOrder ==
  NoCancel =>
    \A i, j \in Ids :
      (i < j /\ ~Rejected(i) /\ ~Rejected(j)) =>
        /\ GrantTime(i) <= GrantTime(j)
        /\ (Deferred(i) /\ Deferred(j)) => GrantTime(i) # GrantTime(j)
        /\ settled[j] = << Resolved >> => settled[i] = << Resolved >>

\* C8, amended: without cancellation the scheduled grant times are
\* non-decreasing in arrival order and strictly increasing from one
\* deferred request to the next.
C8_ScheduledInArrivalOrder ==
  NoCancel =>
    \A i, j \in Ids :
      (i < j /\ ~Rejected(i) /\ ~Rejected(j)) =>
        /\ GrantTime(i) <= GrantTime(j)
        /\ (Deferred(i) /\ Deferred(j)) => GrantTime(i) < GrantTime(j)

\* C8 witness: two requests deferred at different times, then one granted
\* at once.
C8_Witness ==
  /\ NoCancel
  /\ \E i, j, k \in Ids :
       /\ i < j /\ j < k
       /\ Deferred(i) /\ Deferred(j) /\ Immediate(k)
       /\ calls[i].time < calls[j].time

\* The credit is a number of tokens and the bucket starts within it.
WithinCredit ==
  config.tokenCredit >= 0 /\ ConstructedBalance >= -config.tokenCredit * Unit

\* C9, as claimed: the registry never holds more than tokenCredit requests.
C9_PendingAtMostCredit ==
  WithinCredit => Cardinality(DOMAIN pending) <= config.tokenCredit

\* C9, amended: the registry never holds more than tokenCredit requests
\* whose scheduled time is still ahead.
C9_NotYetDueAtMostCredit ==
  WithinCredit =>
    Cardinality({ i \in DOMAIN pending : GrantTime(i) > now })
      <= config.tokenCredit

\* C9 witness: tokenCredit requests are pending, none of them due yet, and
\* a further request was turned away.
C9_Witness ==
  /\ WithinCredit
  /\ config.tokenCredit = 2
  /\ Cardinality({ i \in DOMAIN pending : GrantTime(i) > now }) = 2
  /\ \E i \in Ids : Rejected(i)

\* C10: a request over the credit is refused within the call: its promise
\* is rejected in that step, no timer is created and nothing is added to
\* the registry, then or later.
C10_RejectedAtOnce ==
  /\ [][ ( /\ Next_(None)
           /\ Refill(_balance, now - lastTime, config) < Unit
           /\ OverCredit(Refill(_balance, now - lastTime, config), config) )
         => /\ settled'[nextId] = << CreditExceeded >>
            /\ timers' = timers
            /\ pending' = pending ]_vars
  /\ [](\A i \in Ids :
          Rejected(i) => /\ i \notin DOMAIN pending
                         /\ \A tm \in timers : tm.id # i)

\* C10 witness: a request was rejected for credit while another is pending.
C10_Witness ==
  \E i \in Ids :
    /\ settled[i] = << CreditExceeded >>
    /\ pending # << >>
    /\ \A tm \in timers : tm.id # i

\* Every request made so far has been given its outcome.
NoneWaiting == \A i \in Ids : settled[i] # << >>

\* C11: cancel() when no request is waiting (a bucket never used, or one
\* whose deferred requests have all fired or been cancelled) changes no
\* state, so no outcome already given is altered; and every cancel() leaves
\* the bucket in such a state, so a second cancel() in a row does nothing.
C11_CancelNothingPending ==
  /\ [][ (Cancel(None) /\ NoneWaiting) => UNCHANGED vars ]_vars
  /\ [][ Cancel(None) => (pending' = << >> /\ \A i \in Ids : settled'[i] # << >>) ]_vars

\* C11 witness: nothing is pending after one request was cancelled and a
\* deferred one was resolved by its timer: cancel() now finds an empty
\* registry.
C11_Witness ==
  /\ nextId >= 2
  /\ NoneWaiting
  /\ pending = << >> /\ timers = {}
  /\ \E i, j \in Ids :
       /\ settled[i] = << Cancelled >>
       /\ Deferred(j) /\ settled[j] = << Resolved >> /\ i < j

\* The configuration makes no sense.
InvalidConfig ==
  config.rate <= 0 \/ config.tokenCredit < 0 \/ config.tokens < 0

\* C12: a bucket with rate <= 0, a negative tokenCredit or a negative
\* capacity is refused by the constructor, so no such bucket ever processes
\* a request and none schedules an infinite or a negative delay.
C12_InvalidConfigRefused ==
  InvalidConfig =>
    /\ nextId = 0
    /\ \A i \in Ids : calls[i].delay >= 0 /\ calls[i].delay # Infinity

\* C13: the balance has two writers only, both inside next(): the refill
\* and the decrement by exactly 1 of a granted or deferred request.  A step
\* that makes no request (cancel(), a timer firing, time passing) leaves
\* balance and lastTime unchanged; a cancelled request's token is not given
\* back.
C13_BalanceWriters ==
  [][ LET refilled == Refill(_balance, now - lastTime, config) IN
        IF nextId' = nextId
          THEN _balance' = _balance /\ lastTime' = lastTime
          ELSE /\ lastTime' = now
               /\ IF calls'[nextId].kind = "rejected"
                    THEN _balance' = refilled
                    ELSE _balance' = refilled - Unit ]_vars

\* C13 witness: after the last request, requests were cancelled, a timer
\* fired and time passed; the balance is still what that request left, the
\* cancelled tokens still owed.
C13_Witness ==
  /\ nextId >= 2
  /\ _balance = calls[nextId - 1].balance /\ _balance < 0
  /\ lastTime = calls[nextId - 1].time /\ now > lastTime
  /\ \E i, j \in Ids :
       /\ settled[i] = << Cancelled >>
       /\ Deferred(j) /\ settled[j] = << Resolved >>
       /\ resolvedAt[j] > lastTime

\* The balance request i found and the time since the request before it
\* (since construction, for the first).
BalanceBefore(i) == IF i = 0 THEN ConstructedBalance ELSE calls[i - 1].balance
Elapsed(i) == calls[i].time - (IF i = 0 THEN 0 ELSE calls[i - 1].time)
Capacity == config.tokens * Unit

\* A bucket constructed at or above capacity grants at once as many
\* requests as it holds whole tokens, whenever they come.
OverfillSpent ==
  ConstructedBalance >= Capacity =>
    \A i \in Ids : (i + 1) * Unit <= ConstructedBalance => Immediate(i)

\* C14, as claimed: a request refills a balance below capacity to
\* min(balance + dt * rate, capacity) and leaves a balance at or above
\* capacity unchanged; an overfill is spent by consumption only; the
\* balance never exceeds max(initial balance, capacity).
C14_RefillRule ==
  /\ \A i \in Ids :
       calls[i].refilled =
         IF BalanceBefore(i) < Capacity
           THEN Min(BalanceBefore(i) + Elapsed(i) * config.rate, Capacity)
           ELSE BalanceBefore(i)
  /\ OverfillSpent
  /\ _balance <= Max(ConstructedBalance, Capacity)

\* C14, amended: as claimed, but the refilled value of a balance below
\* capacity is raised to -tokenCredit when it is lower.
C14_RefillRuleWithFloor ==
  /\ \A i \in Ids :
       calls[i].refilled =
         IF BalanceBefore(i) < Capacity
           THEN Max(Min(BalanceBefore(i) + Elapsed(i) * config.rate, Capacity),
                    -config.tokenCredit * Unit)
           ELSE BalanceBefore(i)
  /\ OverfillSpent
  /\ _balance <= Max(ConstructedBalance, Capacity)

\* C14 witness: a bucket of capacity 2 built with balance 3 has granted
\* three requests at once, time passing between them: the second found the
\* balance at capacity and got no refill, the third found it below and did.
C14_Witness ==
  /\ config.tokens = 2 /\ ConstructedBalance = 3 * Unit
  /\ nextId >= 3
  /\ Immediate(0) /\ Immediate(1) /\ Immediate(2)
  /\ Elapsed(1) > 0 /\ calls[1].refilled = BalanceBefore(1)
  /\ Elapsed(2) > 0 /\ calls[2].refilled > BalanceBefore(2)

\* C15: after every call of next(), granted, deferred or rejected, the
\* balance is at least -tokenCredit (tokens >= 0, tokenCredit >= 0),
\* whatever balance the bucket was constructed with and also when the
\* clock was set back between requests.
C15_DebtFloor ==
  (config.tokens >= 0 /\ config.tokenCredit >= 0) =>
    /\ \A i \in Ids : calls[i].balance >= -config.tokenCredit * Unit
    /\ nextId > 0 => _balance >= -config.tokenCredit * Unit

\* C15 witness: a request made after the clock was set back (its time is
\* before the previous request's) had its refill floored at -tokenCredit.
C15_Witness ==
  \E i \in Ids :
    /\ i > 0
    /\ calls[i].time < calls[i - 1].time
    /\ calls[i - 1].balance + Elapsed(i) * config.rate < -config.tokenCredit * Unit
    /\ calls[i].refilled = -config.tokenCredit * Unit
    /\ _balance = -config.tokenCredit * Unit

\* The initial balance the caller asked for: the second argument of the
\* constructor, or the capacity when it was left out.
RequestedBalance ==
  IF args.initialBalance = None
    THEN config.tokens * Unit
    ELSE args.initialBalance[1]

NoTimeElapsed == \A i \in Ids : calls[i].time = 0

\* C16: after N requests issued with no time elapsing, the balance equals
\* the initial balance minus the number of requests that were granted or
\* deferred: only the credit-rejected requests do not decrement, and no
\* step raises or floors the balance.
C16_ExactAccounting ==
  (nextId > 0 /\ NoTimeElapsed) =>
    _balance = RequestedBalance - Cardinality({ i \in Ids : ~Rejected(i) }) * Unit

\* The registry holds the deferred requests that neither fired nor were
\* cancelled, each with one live timer, and an empty registry leaves no timer.
RegistryConsistent ==
  /\ DOMAIN pending = { i \in Ids : Deferred(i) /\ settled[i] = << >> }
  /\ \A i \in DOMAIN pending :
       Cardinality({ tm \in timers : tm.id = pending[i].timeout }) = 1
  /\ \A i \in Ids : (Immediate(i) \/ Rejected(i)) => i \notin DOMAIN pending
  /\ pending = << >> => timers = {}

\* A firing timer removes its own record and no other.
FireRemovesOwnRecord ==
  \A tm \in timers :
    Fire(tm) => /\ tm.id \in DOMAIN pending
                /\ pending' = [i \in DOMAIN pending \ { tm.id } |-> pending[i]]

\* C17: in every reachable state the pending registry holds exactly the
\* requests that were deferred and have neither fired nor been cancelled,
\* each with exactly one live timer; granted and rejected requests are never
\* in it; a firing timer removes only its own record; and when the registry
\* is empty no timer is outstanding.
C17_RegistryConsistency ==
  [] RegistryConsistent /\ [][FireRemovesOwnRecord]_vars

\* C17 witness: one request was granted at once, one was rejected, one
\* deferred request was resolved by its timer and is out of the registry,
\* and another deferred request is still in it with its timer.
C17_Witness ==
  \E i, j, k, l \in Ids :
    /\ Immediate(i) /\ Rejected(j)
    /\ Deferred(k) /\ settled[k] = << Resolved >> /\ k \notin DOMAIN pending
    /\ Deferred(l) /\ DOMAIN pending = { l }
    /\ Cardinality(timers) = 1

\* Request i - 1 found less than one token after its refill, and request i
\* came no sooner than the time the rate takes to bring the balance that
\* request i - 1 left back to one token.
Recovered(i) ==
  /\ i > 0
  /\ config.rate > 0
  /\ calls[i - 1].refilled < Unit
  /\ Elapsed(i) * config.rate >= Unit - calls[i - 1].balance

\* C18: with rate > 0, if a request finds the refilled balance b < 1 and no
\* request is made for at least (1 - b') / rate seconds afterwards (b' the
\* balance that request left), the next request is granted immediately,
\* also right after a credit-exceeded rejection.
C18_Recovery ==
  \A i \in Ids : Recovered(i) => Immediate(i)

\* C18 as it holds: the same for a bucket whose capacity is at least one
\* token; the refill stops at the capacity, so a bucket with capacity 0
\* never holds the token an immediate grant needs.
C18_RecoveryWithCapacity ==
  config.tokens >= 1 => \A i \in Ids : Recovered(i) => Immediate(i)

\* C18 witness: a request was rejected for exceeded credit, the next came
\* exactly when the balance was back at one token, and it was granted at
\* once.
C18_Witness ==
  \E i \in Ids :
    /\ Recovered(i)
    /\ config.tokens >= 1
    /\ Rejected(i - 1)
    /\ Elapsed(i) * config.rate = Unit - calls[i - 1].balance
    /\ Immediate(i)

\* The last time the clock of the model reaches.
Horizon == MaxTicks * TickMs

\* Every deferred request was given a delay that is strictly positive and
\* at most 1000 * tokenCredit / rate milliseconds.
DelayWithinCredit ==
  \A i \in Ids :
    Deferred(i) => /\ calls[i].delay > 0
                   /\ calls[i].delay * config.rate <= config.tokenCredit * Unit

WaitsWithinHorizon(id) ==
  IF id \in DOMAIN pending THEN GrantTime(id) <= Horizon ELSE FALSE

HasSettled(id) ==
  IF id \in DOMAIN settled
    THEN id \notin DOMAIN pending /\ settled[id] # << >>
    ELSE FALSE

\* A deferred request whose timer is due within the time the clock reaches
\* leaves the registry settled: resolved, or rejected by a cancel.
DeferredSettles ==
  \A id \in 0..(MaxFewRequests - 1) :
    WaitsWithinHorizon(id) ~> HasSettled(id)

\* A deferred request that is settled and was not cancelled was resolved,
\* by its timer and not before its delay had passed.
ResolvedByTimer ==
  \A i \in Ids :
    (Deferred(i) /\ settled[i] # << >> /\ settled[i][1] # Cancelled) =>
      /\ settled[i][1] = Resolved
      /\ i \in DOMAIN resolvedAt
      /\ resolvedAt[i] >= GrantTime(i)

\* C19: a request that next() deferred and that is not cancelled is
\* eventually resolved by its timer, given that timers fire, and its delay
\* is strictly positive and at most 1000 * tokenCredit / rate milliseconds.
C19_DeferredTerminates ==
  [] (DelayWithinCredit /\ ResolvedByTimer) /\ DeferredSettles

\* C19 witness: a request deferred for the longest delay the credit allows
\* was resolved by its timer.
C19_Witness ==
  \E i \in Ids :
    /\ Deferred(i)
    /\ calls[i].delay * config.rate = config.tokenCredit * Unit
    /\ settled[i] = << Resolved >>
    /\ resolvedAt[i] >= GrantTime(i)
    /\ i \notin DOMAIN pending

\* The requests resolved at a time from a to b, both included.
ResolvedWithin(a, b) ==
  { k \in DOMAIN resolvedAt : a <= resolvedAt[k] /\ resolvedAt[k] <= b }

\* The times at which some request was resolved: every window that holds a
\* resolved request holds one that begins and ends at such times and holds
\* the same requests.
ResolveTimes == { resolvedAt[k] : k \in DOMAIN resolvedAt }

\* Every request resolved so far was resolved at the time it was scheduled
\* for: no timer fired late.
OnTime == \A k \in DOMAIN resolvedAt : resolvedAt[k] = GrantTime(k)

\* C20: for a bucket whose initial balance is at most its capacity (rate
\* > 0, clock non-decreasing), in every time window of length T the number
\* of requests resolved, at once or by timer, is at most tokens + rate * T.
C20_RateLimit ==
  (RequestedBalance <= Capacity /\ config.rate > 0) =>
    \A a, b \in ResolveTimes :
      a <= b =>
        Cardinality(ResolvedWithin(a, b)) * Unit
          <= config.tokens * Unit + config.rate * (b - a)

\* C20 as it holds: the same when every timer fires at the time it was set
\* for, with a bound of max(tokens, 1) + rate * T.  A timer that fires late
\* resolves its request together with later ones, and a bucket of capacity
\* 0 still resolves one request at a time.
C20_RateLimitOnTime ==
  (RequestedBalance <= Capacity /\ config.rate > 0 /\ OnTime) =>
    \A a, b \in ResolveTimes :
      a <= b =>
        Cardinality(ResolvedWithin(a, b)) * Unit
          <= Max(config.tokens, 1) * Unit + config.rate * (b - a)

\* C20 witness: with every timer on time, a window that begins at an
\* immediate grant and ends at a later resolution by timer holds exactly
\* max(tokens, 1) + rate * T resolved requests.
C20_Witness ==
  /\ RequestedBalance <= Capacity /\ config.rate > 0 /\ OnTime
  /\ \E i, j \in DOMAIN resolvedAt :
       /\ Immediate(i) /\ Deferred(j)
       /\ resolvedAt[i] < resolvedAt[j]
       /\ Cardinality(ResolvedWithin(resolvedAt[i], resolvedAt[j])) * Unit
            = Max(config.tokens, 1) * Unit
                + config.rate * (resolvedAt[j] - resolvedAt[i])

\* A bucket that is refilled continuously: at every step of the clock it
\* gains what the rate gives in that step, up to the capacity.
EagerStep(b, cfg) ==
  IF b < cfg.tokens * Unit
    THEN Min(b + TickMs * cfg.rate, cfg.tokens * Unit)
    ELSE b

RECURSIVE EagerRefill(_, _, _)
EagerRefill(b, steps, cfg) ==
  IF steps = 0 THEN b ELSE EagerRefill(EagerStep(b, cfg), steps - 1, cfg)

\* What a request leaves of the balance it sees: a token is taken unless
\* the request is rejected for exceeded credit.
EagerAdmit(b, cfg) ==
  IF b >= Unit THEN b - Unit
  ELSE IF b < (1 - cfg.tokenCredit) * Unit THEN b
  ELSE b - Unit

\* The balance the continuously refilled bucket holds when request i is
\* made, given the same construction and the same requests at the same times.
RECURSIVE EagerSeen(_)
EagerSeen(i) ==
  EagerRefill(IF i = 0 THEN ConstructedBalance
                       ELSE EagerAdmit(EagerSeen(i - 1), config),
              Elapsed(i) \div TickMs, config)

\* The last request before i that was not rejected, if there is one.
AdmittedBefore(i) == { j \in Ids : j < i /\ ~Rejected(j) }
LastAdmitted(i) == CHOOSE j \in AdmittedBefore(i) : \A k \in AdmittedBefore(i) : k <= j

\* The balance request i sees is the balance the last admitted request left
\* (or the constructed one), refilled for the time since then: the rejected
\* requests in between leave no trace.
RejectionsLeaveNoTrace(i) ==
  calls[i].refilled =
    IF AdmittedBefore(i) = {}
      THEN EagerRefill(ConstructedBalance, calls[i].time \div TickMs, config)
      ELSE EagerRefill(calls[LastAdmitted(i)].balance,
                       (calls[i].time - calls[LastAdmitted(i)].time) \div TickMs,
                       config)

\* C21: with an initial balance of at least -tokenCredit and a clock that
\* does not go back, the balance each request sees is the balance a
\* continuously refilled bucket would hold at that instant, and it does not
\* depend on the rejected requests made since the last admitted one.
C21_LazyEqualsEager ==
  ConstructedBalance >= -config.tokenCredit * Unit =>
    \A i \in Ids : /\ calls[i].refilled = EagerSeen(i)
                   /\ RejectionsLeaveNoTrace(i)

\* C21 witness: after a rejected request and two steps of the clock a
\* request saw a refilled balance, the one of the continuously refilled
\* bucket.
C21_Witness ==
  /\ ConstructedBalance >= -config.tokenCredit * Unit
  /\ \E i \in Ids :
       /\ i > 0
       /\ Rejected(i - 1)
       /\ AdmittedBefore(i) # {}
       /\ Elapsed(i) >= 2 * TickMs
       /\ calls[i].refilled > BalanceBefore(i)
       /\ calls[i].refilled = EagerSeen(i)

\* C22: LazyBucket and LimitedPromise, built with the same config and the
\* same initial balance b >= -tokenCredit and given the same next() calls
\* at the same non-decreasing times, with no cancel, give every request the
\* same outcome (immediate, deferred with the same delay, rejected) and
\* hold the same balance after every call.
C22_SameAdmissionMachine ==
  (ConstructedBalance >= -config.tokenCredit * Unit /\ NoCancel) =>
    /\ LazyStartBalance = ConstructedBalance
    /\ \A i \in Ids : /\ LazyKind(LazyCall(i)) = calls[i].kind
                      /\ LazyCall(i).delay = calls[i].delay
                      /\ LazyCall(i).balance = calls[i].balance
    /\ nextId > 0 => LazyCall(nextId - 1).balance = _balance

\* C22 witness: both buckets granted a request at once, deferred one with
\* the same delay and rejected one, with time passing between two requests.
C22_Witness ==
  /\ ConstructedBalance >= -config.tokenCredit * Unit /\ NoCancel
  /\ \E i, j, k, l \in Ids :
       /\ Immediate(i) /\ LazyKind(LazyCall(i)) = "immediate"
       /\ Deferred(j) /\ LazyKind(LazyCall(j)) = "deferred"
       /\ LazyCall(j).delay = calls[j].delay
       /\ Rejected(k) /\ LazyKind(LazyCall(k)) = "rejected"
       /\ l > 0 /\ Elapsed(l) > 0 /\ calls[l].refilled > BalanceBefore(l)
  /\ LazyCall(nextId - 1).balance = _balance

\* The model's types.
TypeOK ==
  /\ nextId \in 0..MaxRequests
  /\ DOMAIN settled = 0..(nextId - 1)
  /\ DOMAIN calls = 0..(nextId - 1)
  /\ DOMAIN pending \subseteq 0..(nextId - 1)
  /\ now \in 0..(MaxTicks * TickMs)
  /\ lastTime \in 0..(now + TickMs)
====
